---------------------------- MODULE Spec2Model ----------------------------
(***************************************************************************)
(* Model of the two proving scripts of zkTripStr:                          *)
(*   sp1_prover/zkpoex-script/src/bin/prove.rs  (time-delayed session and   *)
(*                                               the drand round scheduler) *)
(*   sp1_prover/ecdh-script/src/bin/prove.rs    (peer-targeted session)     *)
(*                                                                         *)
(* Two specifications are given.  SchedSpec exercises the round scheduler  *)
(* (round_at, round_after, current_round, next_round) on inputs drawn from *)
(* bounded sets.  Spec runs the two sessions as independent processes that *)
(* share only the file system.                                             *)
(***************************************************************************)
EXTENDS Integers, Naturals, Sequences, FiniteSets, TLC

(***************************************************************************)
(* Bounds of the model.                                                    *)
(***************************************************************************)
\* Beacon periods are 1..MaxPeriod seconds.
MaxPeriod == 3
\* Beacon genesis times are 0..MaxGenesis seconds after the Unix epoch.
MaxGenesis == 1
\* Wall-clock instants lie in 0..MaxSecs seconds after the Unix epoch.
MaxSecs == 3
\* Requested delays are 0..MaxDelay seconds, in sub-second steps.
MaxDelay == 1
\* A SystemTime / Duration is counted in sub-second units, SubsecPerSec of
\* them to the second (std counts nanoseconds; the model keeps the
\* sub-second part, which as_secs() drops, with a coarser grain).
SubsecPerSec == 2
\* The random source yields NumKeys distinct keys.
NumKeys == 2
\* The two scripts are launched at most MaxLaunches times in all.
MaxLaunches == 2
\* The sessions followed are those whose disclosure round is at most
\* MaxRound.
MaxRound == 2

(***************************************************************************)
(* Program constants.                                                      *)
(***************************************************************************)
\* Significand width of an f64 (`as f64`, prove.rs line 222).
F64MantissaBits == 53
\* Length of the symmetric key, `[u8; 32]`.
KeyLen == 32
\* Length of the nonce, `[u8; 12]`.
NonceLen == 12

(***************************************************************************)
(* State.                                                                  *)
(***************************************************************************)
VARIABLES
    call,         \* the latest scheduler call with its whole call tree
    prev,         \* instant and result of the scheduler call before it
    fs,           \* the file system: path -> contents
    zk,           \* the time-delayed (zkpoex) script: position and locals
    ec,           \* the peer-targeted (ecdh) script: position and locals
    slot_origin   \* history: where the bytes in the key slot come from

schedVars == <<call, prev>>
sessVars == <<fs, zk, ec, slot_origin>>
vars == <<call, prev, fs, zk, ec, slot_origin>>

NoCall == [kind |-> "none"]

\* Values of ChainInfo the beacon collaborator may return.
ChainInfos == [period : 1..MaxPeriod, genesis : 0..MaxGenesis]

\* SystemTime values (sub-second units since UNIX_EPOCH).
SystemTimes == 0..(MaxSecs * SubsecPerSec + (SubsecPerSec - 1))

\* Duration values a caller may request (sub-second units).
Durations == 0..(MaxDelay * SubsecPerSec)

(***************************************************************************)
(* std::time conversions.                                                  *)
(***************************************************************************)
\* Duration::as_secs: the whole seconds of a duration, the rest dropped.
as_secs(dur) == dur \div SubsecPerSec

\* Duration::from_secs.
from_secs(secs) == secs * SubsecPerSec

\* SystemTime::duration_since(UNIX_EPOCH).unwrap(): the epoch is instant 0.
duration_since_epoch(t) == t

(***************************************************************************)
(* Casts of next_round (line 222).                                         *)
(***************************************************************************)
RECURSIVE BitLen(_)
BitLen(n) == IF n = 0 THEN 0 ELSE 1 + BitLen(n \div 2)

RECURSIVE Pow2(_)
Pow2(k) == IF k = 0 THEN 1 ELSE 2 * Pow2(k - 1)

\* `n as f64` for a u64 n: exact while n fits the significand, otherwise
\* rounded to the nearest representable value, ties to even.
U64AsF64(n) ==
    LET len == BitLen(n) IN
    IF len <= F64MantissaBits THEN n
    ELSE LET unit == Pow2(len - F64MantissaBits)
             q    == n \div unit
             r    == n % unit
             up   == \/ 2 * r > unit
                     \/ (2 * r = unit /\ q % 2 = 1)
         IN  (IF up THEN q + 1 ELSE q) * unit

\* (x / y).floor() for integer-valued doubles x >= 0, y > 0.  A quotient
\* that is no integer lies at least 1/y below the next integer, more than
\* half an ulp while x is below 2^F64MantissaBits, so the rounded quotient
\* has the floor of the exact one.
F64DivFloor(x, y) == x \div y

\* `x as u64` for a non-negative integer-valued double.
F64AsU64(x) == x

(***************************************************************************)
(* Round scheduler (zkpoex-script prove.rs lines 191-226).                 *)
(***************************************************************************)
\* A plausible slip of next_round: the emission time before genesis is the
\* queried instant instead of the genesis time.
next_round_now(now, period, genesis) ==
    IF now < genesis THEN <<1, now>>
    ELSE LET from_genesis == now - genesis
             nr == F64AsU64(F64DivFloor(U64AsF64(from_genesis),
                                        U64AsF64(as_secs(period))) + 1)
         IN  <<nr, genesis + nr * as_secs(period)>>

\* A plausible slip of next_round: the "+ 1" is forgotten.
next_round_no_inc(now, period, genesis) ==
    IF now < genesis THEN <<1, genesis>>
    ELSE LET from_genesis == now - genesis
             nr == F64AsU64(F64DivFloor(U64AsF64(from_genesis),
                                        U64AsF64(as_secs(period))))
         IN  <<nr, genesis + nr * as_secs(period)>>

\* A plausible slip of next_round: `%` typed for `/`.
next_round_rem(now, period, genesis) ==
    IF now < genesis THEN <<1, genesis>>
    ELSE LET from_genesis == now - genesis
             nr == F64AsU64((U64AsF64(from_genesis)
                             % U64AsF64(as_secs(period))) + 1)
         IN  <<nr, genesis + nr * as_secs(period)>>

\* next_round(now, period, genesis) -> (next_round, next_time)
next_round(now, period, genesis) ==
    IF now < genesis THEN <<1, genesis>>
    ELSE LET from_genesis == now - genesis
             nr == F64AsU64(F64DivFloor(U64AsF64(from_genesis),
                                        U64AsF64(as_secs(period))) + 1)
         IN  <<nr, genesis + nr * as_secs(period)>>

\* A plausible slip of current_round: the clamp is forgotten.
current_round_no_clamp(now, period, genesis) ==
    next_round(now, period, genesis)[1] - 1

\* current_round(now, period, genesis)
current_round(now, period, genesis) ==
    LET nr == next_round(now, period, genesis)[1] IN
    IF nr <= 1 THEN nr ELSE nr - 1

\* A slip of round_at: the round after the one in progress is returned
\* (next_round is called where current_round is meant).
round_at_next_round(info, t) ==
    LET since_epoch == duration_since_epoch(t)
        t_unix      == as_secs(since_epoch)
    IN  next_round(t_unix, from_secs(info.period), info.genesis)[1]

\* round_at(chain_info, t)
round_at(info, t) ==
    LET since_epoch == duration_since_epoch(t)
        t_unix      == as_secs(since_epoch)
    IN  current_round(t_unix, from_secs(info.period), info.genesis)

\* round_after(chain_info, d), with `now` the value of SystemTime::now().
round_after(info, now, d) ==
    LET t == now + d IN round_at(info, t)

\* The call tree of round_at(info, t): what each callee was given and
\* what it returned.
CallTree(info, t) ==
    [info   |-> info,
     t      |-> t,
     t_unix |-> as_secs(duration_since_epoch(t)),
     next   |-> next_round(as_secs(duration_since_epoch(t)),
                           from_secs(info.period), info.genesis),
     cur    |-> current_round(as_secs(duration_since_epoch(t)),
                              from_secs(info.period), info.genesis),
     out    |-> round_at(info, t)]

(***************************************************************************)
(* Files and values of the two scripts.                                    *)
(***************************************************************************)
\* Paths the scripts touch.
DataDir    == "./data"
KeySlot    == "./data/zkpoex_enc_key"
ChachaBlob == "./data/zkpoex_chacha"
TlockBlob  == "./data/zkpoex_tlock"
ProofFile  == "./zkpoex.bincode"
ZkFixture  == "contracts/src/fixtures/zkpoex_fixture.json"
EcFixture  == "fixtures/ecdh_fixture.json"
\* The directory line 182 creates for the fixture of the zkpoex script.
ZkFixtureDir == "contracts/src/fixtures"

Paths == {DataDir, KeySlot, ChachaBlob, TlockBlob, ProofFile, ZkFixture,
          EcFixture}
DataFiles == {KeySlot, ChachaBlob, TlockBlob}
FixtureFiles == {ZkFixture, EcFixture}

\* Contents of a path.
NoFile == [kind |-> "absent"]
Dir == [kind |-> "dir"]
Bytes(b) == [kind |-> "bytes", val |-> b]
Str(s) == [kind |-> "string", val |-> s]
Num(n) == [kind |-> "number", val |-> n]

\* Values of the locals before they are assigned.
NoKey == <<>>
Unset == [kind |-> "unset"]

\* `rng.gen()` for `[u8; 32]` and `[u8; 12]`.
Keys == {[i \in 1..KeyLen |-> k] : k \in 1..NumKeys}
\* No step of either script depends on the value of its nonce: one value
\* stands for the draw of each script, the two being different.
ZkNonces == {[i \in 1..NonceLen |-> 1]}
EcNonces == {[i \in 1..NonceLen |-> 2]}

\* What the key slot may hold before any script has run: nothing, a key of
\* an earlier secret, or a value of another length.
StaleKey == [i \in 1..KeyLen |-> 0]
ShortValue == [i \in 1..(KeyLen - 1) |-> 0]
LongValue == [i \in 1..(KeyLen + 1) |-> 0]
SlotInits == {NoFile, Bytes(StaleKey), Bytes(ShortValue), Bytes(LongValue)}

\* Outputs of the collaborators, kept symbolic: each names what it was
\* computed from and none exposes it.
TlockEncrypt(key, round) == [kind |-> "tlock", binds |-> key, round |-> round]
ChaCha(key, nonce) == [kind |-> "chacha", under |-> key, nonce |-> nonce]
Hash(x) == [kind |-> "hash", of |-> x]
EcdhCipher(key, nonce) == [kind |-> "ecdh_cipher", of |-> key, nonce |-> nonce]
Malformed == [kind |-> "public_values", wf |-> FALSE]

\* The public values the zkpoex program commits for its inputs, in bincode.
ZkPublicValues(key, nonce) ==
    [kind |-> "public_values", wf |-> TRUE,
     fields |-> [before |-> Str("before"), after |-> Str("after"),
                 hash_private_inputs |-> Hash(<<key, nonce>>),
                 chacha_cipher |-> ChaCha(key, nonce)]]

\* The public values the ecdh program commits: an ABI-encoded KeyEncOut.
EcPublicValues(key, nonce) ==
    [kind |-> "public_values", wf |-> TRUE,
     fields |-> [keyHash |-> Hash(key),
                 keyCipher |-> EcdhCipher(key, nonce)]]

\* A slip of the decoding: a byte string that is not the expected tuple
\* decodes to default field values (unwrap_or_default).
decode_or_default(public_values) ==
    IF public_values.wf THEN [ok |-> TRUE, val |-> public_values.fields]
    ELSE [ok |-> TRUE,
          val |-> [before |-> Str(""), after |-> Str(""),
                   hash_private_inputs |-> Bytes(<<>>),
                   chacha_cipher |-> Bytes(<<>>),
                   keyHash |-> Bytes(<<>>), keyCipher |-> Bytes(<<>>)]]

\* bincode::deserialize / KeyEncOut::abi_decode: the fields of a
\* well-formed byte string, an error for any other.
decode(public_values) ==
    IF public_values.wf THEN [ok |-> TRUE, val |-> public_values.fields]
    ELSE [ok |-> FALSE]

(***************************************************************************)
(* std::fs and the key conversion of the ecdh script (lines 85-88).        *)
(***************************************************************************)
\* A slip of fs::read: a missing file reads as empty (unwrap_or_default).
fs_read_or_default(path) ==
    IF fs[path].kind = "bytes" THEN [ok |-> TRUE, val |-> fs[path].val]
    ELSE [ok |-> TRUE, val |-> <<>>]

\* fs::read(path): the bytes of the file, an error when there is none.
fs_read(path) ==
    IF fs[path].kind = "bytes" THEN [ok |-> TRUE, val |-> fs[path].val]
    ELSE [ok |-> FALSE]

\* A slip of the conversion: a value of another length is cut or
\* zero-padded to the key length.
try_into_resizing(bytes) ==
    [ok |-> TRUE,
     val |-> [i \in 1..KeyLen |-> IF i <= Len(bytes) THEN bytes[i] ELSE 0]]

\* A slip of the conversion: the key is derived from a fixed seed, as
\* the key-exchange keys of lines 63-67 are, not taken from the bytes read.
try_into_fixed(bytes) ==
    IF Len(bytes) = KeyLen THEN [ok |-> TRUE, val |-> [i \in 1..KeyLen |-> 12]]
    ELSE [ok |-> FALSE]

\* Vec<u8>::try_into::<[u8; 32]>(): the bytes unchanged when there are
\* exactly 32 of them, an error otherwise.
try_into(bytes) ==
    IF Len(bytes) = KeyLen THEN [ok |-> TRUE, val |-> bytes]
    ELSE [ok |-> FALSE]

\* fs::write(path, contents) succeeds only where the parent directory
\* exists.
ParentExists(path) == path \in DataFiles => fs[DataDir] = Dir

\* The file systems a successful fs::write(path, contents) leaves.
Written(path, contents) == [fs EXCEPT ![path] = contents]

\* The file systems a failed fs::write(path, _) may leave: the file as it
\* was, or, the file having been opened and truncated, empty.
AfterFailedWrite(path) ==
    {fs} \cup (IF fs[DataDir] = Dir \/ path \notin DataFiles
               THEN {[fs EXCEPT ![path] = Bytes(<<>>)]} ELSE {})

(***************************************************************************)
(* The time-delayed script (zkpoex-script prove.rs, main, lines 79-189).   *)
(***************************************************************************)
\* `wrote` and `failed` are history: the files this run has written and
\* the paths on which an I/O call of this run has failed.
ZkIdle ==
    [pc |-> "idle", runs |-> 0, key |-> NoKey, nonce |-> NoKey, round |-> 0,
     tlock_cipher |-> Unset, stdin |-> Unset, public_values |-> Unset,
     decoded |-> Unset, outcome |-> "", prove_calls |-> 0, wrote |-> {},
     failed |-> {}]

Stopped(s) == s.pc \in {"idle", "done", "panicked"}

ZkPanic(why) == zk' = [zk EXCEPT !.pc = "panicked", !.outcome = why]

\* `.expect(..)` on the Err of an I/O call on `path`: the script panics.
ZkPersistenceError(path) ==
    zk' = [zk EXCEPT !.pc = "panicked", !.outcome = "PersistenceError",
                     !.failed = @ \cup {path}]

\* A script may be launched when it is not running.
CanLaunch(s) == Stopped(s) /\ zk.runs + ec.runs < MaxLaunches

\* The rounds lines 95-105 can compute: round_after(&info, d) for the chain
\* info fetched, the instant of the call and the --duration given.
SessionRounds ==
    {r \in 1..MaxRound :
        \E info \in ChainInfos, now \in SystemTimes, d \in Durations :
            now + d \in SystemTimes /\ r = round_after(info, now, d)}

\* Lines 84-105: the script is launched, draws key and nonce, fetches the
\* chain info and computes the disclosure round.
ZkStart ==
    /\ CanLaunch(zk)
    /\ \E key \in Keys, nonce \in ZkNonces, round \in SessionRounds :
          zk' = [ZkIdle EXCEPT !.pc = "bind", !.runs = zk.runs + 1,
                               !.key = key, !.nonce = nonce,
                               !.round = round]
    /\ UNCHANGED <<fs, ec, slot_origin, call, prev>>

\* Lines 91-95: the beacon cannot be reached; both unwraps panic.
ZkBeaconUnavailable ==
    /\ CanLaunch(zk)
    /\ \E key \in Keys, nonce \in ZkNonces :
          zk' = [ZkIdle EXCEPT !.pc = "panicked", !.runs = zk.runs + 1,
                               !.key = key, !.nonce = nonce,
                               !.outcome = "BeaconUnavailable"]
    /\ UNCHANGED <<fs, ec, slot_origin, call, prev>>

\* A slip of the binding: the round is computed anew for the binder
\* (round_after called a second time, at a later instant).
ZkBind_recomputing ==
    /\ zk.pc = "bind"
    /\ \E round \in SessionRounds :
          zk' = [zk EXCEPT !.pc = "prove",
                           !.tlock_cipher = TlockEncrypt(zk.key, round)]
    /\ UNCHANGED <<fs, ec, slot_origin, call, prev>>

\* Lines 107-108: the key is bound to the round.
ZkBind ==
    /\ zk.pc = "bind"
    /\ zk' = [zk EXCEPT !.pc = "prove",
                        !.tlock_cipher = TlockEncrypt(zk.key, zk.round)]
    /\ UNCHANGED <<fs, ec, slot_origin, call, prev>>

\* A slip of the proving step: a first failure of the prover is retried.
ZkProve_retrying ==
    /\ zk.pc = "prove"
    /\ LET stdin == [key |-> zk.key, nonce |-> zk.nonce, round |-> zk.round]
           called == [zk EXCEPT !.stdin = stdin,
                                !.prove_calls = zk.prove_calls + 1]
       IN  \/ \E pv \in {ZkPublicValues(zk.key, zk.nonce), Malformed} :
                zk' = [called EXCEPT !.pc = "mkdir", !.public_values = pv]
           \/ IF zk.prove_calls = 0 THEN zk' = called
              ELSE zk' = [called EXCEPT !.pc = "panicked",
                                        !.outcome = "ProvingFailed"]
    /\ UNCHANGED <<fs, ec, slot_origin, call, prev>>

\* Lines 110-130: the inputs are written to stdin and the prover is called
\* once; `expect` panics on its failure.  The public values are the
\* prover's: well-formed for the inputs, or not.
ZkProve ==
    /\ zk.pc = "prove"
    /\ LET stdin == [key |-> zk.key, nonce |-> zk.nonce, round |-> zk.round]
           called == [zk EXCEPT !.stdin = stdin,
                                !.prove_calls = zk.prove_calls + 1]
       IN  \/ \E pv \in {ZkPublicValues(zk.key, zk.nonce), Malformed} :
                zk' = [called EXCEPT !.pc = "mkdir", !.public_values = pv]
           \/ zk' = [called EXCEPT !.pc = "panicked",
                                   !.outcome = "ProvingFailed"]
    /\ UNCHANGED <<fs, ec, slot_origin, call, prev>>

\* Line 132: `let _ = fs::create_dir_all("./data")`: the result is
\* dropped, so the script goes on whether the directory is there or not.
ZkCreateDataDir ==
    /\ zk.pc = "mkdir"
    /\ \/ /\ fs' = [fs EXCEPT ![DataDir] = Dir]
          /\ zk' = [zk EXCEPT !.pc = "write_key"]
       \/ /\ fs[DataDir] # Dir
          /\ fs' = fs
          /\ zk' = [zk EXCEPT !.pc = "write_key",
                              !.failed = @ \cup {DataDir}]
    /\ UNCHANGED <<ec, slot_origin, call, prev>>

\* The bytes line 133 writes to the key slot.
KeyFileContents == Bytes(zk.key)

\* Line 133: the key is written to the key slot; `expect` panics on an
\* I/O failure.
ZkWriteKey ==
    /\ zk.pc = "write_key"
    /\ \/ /\ ParentExists(KeySlot)
          /\ fs' = Written(KeySlot, KeyFileContents)
          /\ zk' = [zk EXCEPT !.pc = "decode", !.wrote = @ \cup {KeySlot}]
          /\ slot_origin' = [by |-> "zkpoex", key |-> zk.key]
       \/ /\ fs' \in AfterFailedWrite(KeySlot)
          /\ ZkPersistenceError(KeySlot)
          /\ slot_origin' = IF fs' = fs THEN slot_origin
                            ELSE [by |-> "failed write", key |-> NoKey]
    /\ UNCHANGED <<ec, call, prev>>

\* Lines 135-144: the public values are decoded; `expect` panics when
\* they are not the expected tuple.
ZkDecode ==
    /\ zk.pc = "decode"
    /\ LET r == decode(zk.public_values) IN
       IF r.ok THEN zk' = [zk EXCEPT !.pc = "write_chacha", !.decoded = r.val]
       ELSE ZkPanic("PublicValueDecodeError")
    /\ UNCHANGED <<fs, ec, slot_origin, call, prev>>

\* A write of a working-state blob followed by `expect`.
ZkWriteBlob(path, contents, next) ==
    /\ \/ /\ ParentExists(path)
          /\ fs' = Written(path, contents)
          /\ zk' = [zk EXCEPT !.pc = next, !.wrote = @ \cup {path}]
       \/ /\ fs' \in AfterFailedWrite(path)
          /\ ZkPersistenceError(path)
    /\ UNCHANGED <<ec, slot_origin, call, prev>>

\* Lines 146-147: the session ciphertext is written.
ZkWriteChacha ==
    /\ zk.pc = "write_chacha"
    /\ ZkWriteBlob(ChachaBlob, zk.decoded.chacha_cipher, "write_tlock")

\* Lines 149-150: the time-lock ciphertext is written.
ZkWriteTlock ==
    /\ zk.pc = "write_tlock"
    /\ ZkWriteBlob(TlockBlob, zk.tlock_cipher, "save_proof")

\* The fixture of lines 153-165.
ZkFixtureRecord ==
    [before |-> zk.decoded.before, after |-> zk.decoded.after,
     hash_private_inputs |-> zk.decoded.hash_private_inputs,
     key |-> Bytes(zk.key), nonce |-> Bytes(zk.nonce),
     round |-> Num(zk.round),
     chacha_cipher |-> zk.decoded.chacha_cipher,
     tlock_cipher |-> zk.tlock_cipher,
     calldata |-> Str("calldata"),
     blockchain_settings |-> Str("blockchain_settings"),
     vkey |-> Str("zkpoex vkey")]

\* Line 167: `let _ = proof.save("./zkpoex.bincode")`: the result is
\* dropped.
ZkSaveProof ==
    /\ zk.pc = "save_proof"
    /\ \/ /\ fs' = Written(ProofFile, [kind |-> "proof",
                                       public_values |-> zk.public_values])
          /\ zk' = [zk EXCEPT !.pc = "fixture_dir",
                              !.wrote = @ \cup {ProofFile}]
       \/ /\ fs' \in AfterFailedWrite(ProofFile)
          /\ zk' = [zk EXCEPT !.pc = "fixture_dir",
                              !.failed = @ \cup {ProofFile}]
    /\ UNCHANGED <<ec, slot_origin, call, prev>>

\* Lines 182-183: the fixture directory is created; `expect` panics on
\* failure.
ZkCreateFixtureDir ==
    /\ zk.pc = "fixture_dir"
    /\ \/ zk' = [zk EXCEPT !.pc = "write_fixture"]
       \/ ZkPersistenceError(ZkFixtureDir)
    /\ UNCHANGED <<fs, ec, slot_origin, call, prev>>

\* Lines 184-188: the fixture is serialised and written; `expect` panics
\* on failure.
ZkWriteFixture ==
    /\ zk.pc = "write_fixture"
    /\ \/ /\ fs' = Written(ZkFixture, [kind |-> "json",
                                       val |-> ZkFixtureRecord])
          /\ zk' = [zk EXCEPT !.pc = "done", !.outcome = "ok",
                              !.wrote = @ \cup {ZkFixture}]
       \/ /\ fs' \in AfterFailedWrite(ZkFixture)
          /\ ZkPersistenceError(ZkFixture)
    /\ UNCHANGED <<ec, slot_origin, call, prev>>

(***************************************************************************)
(* The peer-targeted script (ecdh-script prove.rs, main, lines 52-147).    *)
(***************************************************************************)
\* `read` and `origin` are history: what the key slot held when line 85
\* read it, and where that came from.
EcIdle ==
    [pc |-> "idle", runs |-> 0, nonce |-> NoKey, read |-> Unset,
     key |-> NoKey, origin |-> Unset, stdin |-> Unset,
     public_values |-> Unset, decoded |-> Unset, outcome |-> "",
     prove_calls |-> 0, wrote |-> {}]

EcPanic(why) == ec' = [ec EXCEPT !.pc = "panicked", !.outcome = why]

\* The key-exchange keys of lines 63-70, derived from fixed seeds.
LocalSk == [kind |-> "k256_sk", seed |-> 12]
VendorPk == [kind |-> "k256_pk", seed |-> 13]

\* Lines 52-83: the script is launched, derives the key-exchange keys and
\* draws its nonce.
EcStart ==
    /\ CanLaunch(ec)
    /\ \E nonce \in EcNonces :
          ec' = [EcIdle EXCEPT !.pc = "load", !.runs = ec.runs + 1,
                               !.nonce = nonce]
    /\ UNCHANGED <<fs, zk, slot_origin, call, prev>>

\* A slip of the loading: finding the key slot empty, the script draws a
\* key of its own and writes it to the slot.
EcLoadKey_generating ==
    /\ ec.pc = "load"
    /\ LET r == fs_read(KeySlot)
           seen == [ec EXCEPT !.read = fs[KeySlot], !.origin = slot_origin]
       IN  IF ~r.ok
           THEN \E key \in Keys :
                   /\ ec' = [seen EXCEPT !.pc = "prove", !.key = key]
                   /\ fs' = Written(KeySlot, Bytes(key))
           ELSE /\ fs' = fs
                /\ LET k == try_into(r.val) IN
                   IF ~k.ok
                   THEN ec' = [seen EXCEPT !.pc = "panicked",
                                           !.outcome = "KeyLengthMismatch"]
                   ELSE ec' = [seen EXCEPT !.pc = "prove", !.key = k.val]
    /\ UNCHANGED <<zk, slot_origin, call, prev>>

\* Lines 85-88: the key slot is read and converted to `[u8; 32]`; either
\* unwrap panics.
EcLoadKey ==
    /\ ec.pc = "load"
    /\ LET r == fs_read(KeySlot)
           seen == [ec EXCEPT !.read = fs[KeySlot], !.origin = slot_origin]
       IN  IF ~r.ok
           THEN ec' = [seen EXCEPT !.pc = "panicked",
                                   !.outcome = "KeyNotFound"]
           ELSE LET k == try_into(r.val) IN
                IF ~k.ok
                THEN ec' = [seen EXCEPT !.pc = "panicked",
                                        !.outcome = "KeyLengthMismatch"]
                ELSE ec' = [seen EXCEPT !.pc = "prove", !.key = k.val]
    /\ UNCHANGED <<fs, zk, slot_origin, call, prev>>

\* Lines 90-103: the inputs are written to stdin and the prover is called
\* once; `expect` panics on its failure.
EcProve ==
    /\ ec.pc = "prove"
    /\ LET stdin == [key |-> ec.key, nonce |-> ec.nonce,
                     local_sk |-> LocalSk, vendor_pk |-> VendorPk]
           called == [ec EXCEPT !.stdin = stdin,
                                !.prove_calls = ec.prove_calls + 1]
       IN  \/ \E pv \in {EcPublicValues(ec.key, ec.nonce), Malformed} :
                ec' = [called EXCEPT !.pc = "decode", !.public_values = pv]
           \/ ec' = [called EXCEPT !.pc = "panicked",
                                   !.outcome = "ProvingFailed"]
    /\ UNCHANGED <<fs, zk, slot_origin, call, prev>>

\* Lines 105-108: the public values are ABI-decoded; unwrap panics when
\* they are no KeyEncOut.
EcDecode ==
    /\ ec.pc = "decode"
    /\ LET r == decode(ec.public_values) IN
       IF r.ok THEN ec' = [ec EXCEPT !.pc = "fixture_dir", !.decoded = r.val]
       ELSE EcPanic("PublicValueDecodeError")
    /\ UNCHANGED <<fs, zk, slot_origin, call, prev>>

\* The fixture of lines 114-121.
EcFixtureRecord ==
    [local_sk |-> [kind |-> "hex", of |-> LocalSk],
     vendor_pk |-> [kind |-> "hex", of |-> VendorPk],
     vkey |-> Str("ecdh vkey"),
     public_values |-> [kind |-> "hex", of |-> ec.public_values],
     proof |-> [kind |-> "hex", of |-> "groth16 proof"],
     key_hash |-> [kind |-> "hex", of |-> ec.decoded.keyHash]]

\* Lines 140-141: the fixture directory is created; `expect` panics on
\* failure.
EcCreateFixtureDir ==
    /\ ec.pc = "fixture_dir"
    /\ \/ ec' = [ec EXCEPT !.pc = "write_fixture"]
       \/ EcPanic("PersistenceError")
    /\ UNCHANGED <<fs, zk, slot_origin, call, prev>>

\* Lines 142-146: the fixture is serialised and written; `expect` panics
\* on failure.
EcWriteFixture ==
    /\ ec.pc = "write_fixture"
    /\ \/ /\ fs' = Written(EcFixture, [kind |-> "json",
                                       val |-> EcFixtureRecord])
          /\ ec' = [ec EXCEPT !.pc = "done", !.outcome = "ok",
                              !.wrote = @ \cup {EcFixture}]
       \/ /\ fs' \in AfterFailedWrite(EcFixture)
          /\ EcPanic("PersistenceError")
    /\ UNCHANGED <<zk, slot_origin, call, prev>>

(***************************************************************************)
(* Spec: both scripts, launched in any order and interleaved freely.       *)
(***************************************************************************)
Init ==
    /\ call = NoCall
    /\ prev = NoCall
    /\ fs \in [Paths -> {NoFile, Dir} \cup SlotInits]
    /\ fs[KeySlot] \in SlotInits
    /\ fs[DataDir] \in {NoFile, Dir}
    /\ fs[KeySlot] # NoFile => fs[DataDir] = Dir
    /\ \A p \in Paths \ {KeySlot, DataDir} : fs[p] = NoFile
    /\ zk = ZkIdle
    /\ ec = EcIdle
    /\ slot_origin = [by |-> "initial", key |-> NoKey]

Next ==
    \/ ZkStart
    \/ ZkBeaconUnavailable
    \/ ZkBind
    \/ ZkProve
    \/ ZkCreateDataDir
    \/ ZkWriteKey
    \/ ZkDecode
    \/ ZkWriteChacha
    \/ ZkWriteTlock
    \/ ZkSaveProof
    \/ ZkCreateFixtureDir
    \/ ZkWriteFixture
    \/ EcStart
    \/ EcLoadKey
    \/ EcProve
    \/ EcDecode
    \/ EcCreateFixtureDir
    \/ EcWriteFixture

Spec == Init /\ [][Next]_vars

(***************************************************************************)
(* SchedSpec: the scheduler applied to drawn inputs.                       *)
(***************************************************************************)
\* The beacon is fixed: every call of a behaviour is given the same
\* ChainInfo.
Beacons == IF call = NoCall THEN ChainInfos ELSE {call.info}

Shift == prev' = IF call = NoCall THEN NoCall
                 ELSE [kind |-> "seen", t |-> call.t, out |-> call.out,
                       next |-> call.next]

\* A caller asks for the round at instant t.
CallRoundAt(info, t) ==
    /\ call' = [kind |-> "round_at", now |-> t, d |-> 0] @@ CallTree(info, t)
    /\ Shift
    /\ UNCHANGED sessVars

\* A caller asks for the round a duration d after the current instant now.
CallRoundAfter(info, now, d) ==
    /\ now + d \in SystemTimes
    /\ call' = [kind |-> "round_after", now |-> now, d |-> d,
                out |-> round_after(info, now, d)]
               @@ CallTree(info, now + d)
    /\ Shift
    /\ UNCHANGED sessVars

\* No script runs under SchedSpec: the file system is empty and stays so.
SchedInit ==
    /\ call = NoCall
    /\ prev = NoCall
    /\ fs = [p \in Paths |-> NoFile]
    /\ zk = ZkIdle
    /\ ec = EcIdle
    /\ slot_origin = [by |-> "initial", key |-> NoKey]

SchedNext ==
    \/ \E info \in Beacons, t \in SystemTimes : CallRoundAt(info, t)
    \/ \E info \in Beacons, now \in SystemTimes, d \in Durations :
          CallRoundAfter(info, now, d)

SchedSpec == SchedInit /\ [][SchedNext]_vars

(***************************************************************************)
(* Claims about the round scheduler, checked under SchedSpec.              *)
(***************************************************************************)
Max(a, b) == IF a >= b THEN a ELSE b

\* floor((now - genesis) / period) on the integers, for now >= genesis.
PeriodsSinceGenesis(now) ==
    (now - call.info.genesis) \div call.info.period

Called == call # NoCall

\* C2 (as claimed): the round that round_after(info, d) returns is not
\* emitted before the target instant now + d, whenever the target is not
\* before genesis: genesis + r * period >= now + d.
C2_NoUnderShoot ==
    (/\ Called
     /\ call.kind = "round_after"
     /\ call.now + call.d >= from_secs(call.info.genesis))
    => from_secs(call.info.genesis + call.out * call.info.period)
         >= call.now + call.d

\* C3 (as claimed): for every instant at or after genesis, round_at returns
\* floor((now - genesis) / period) + 1.
C3_RoundAtIsNextRound ==
    (Called /\ call.t_unix >= call.info.genesis)
    => call.out = PeriodsSinceGenesis(call.t_unix) + 1

\* C4: for every instant before genesis, round_at is 1 and next_round
\* returns (1, genesis).
C4_BeforeGenesis ==
    (Called /\ call.t_unix < call.info.genesis)
    => /\ call.out = 1
       /\ call.next = <<1, call.info.genesis>>

C4_Witness ==
    /\ Called
    /\ call.t_unix < call.info.genesis
    /\ call.next[2] = call.info.genesis

\* C5: for every instant at or after genesis, next_round returns the pair
\* (n, genesis + n * period) with n = floor((now - genesis) / period) + 1.
C5_NextRoundFormula ==
    (Called /\ call.t_unix >= call.info.genesis)
    => LET n == PeriodsSinceGenesis(call.t_unix) + 1
       IN  call.next = <<n, call.info.genesis + n * call.info.period>>

\* The scenario of the claim scaled to the model: one and a half periods
\* after genesis the next round is 2.
C5_Witness ==
    /\ Called
    /\ call.info.period = 2
    /\ call.info.genesis = 0
    /\ call.t_unix = 3
    /\ call.next[1] = 2

\* C6: current_round equals max(1, n - 1) for the n that next_round returns
\* on the same inputs, and is never below 1.
C6_CurrentRoundClamped ==
    Called => /\ call.cur = Max(1, call.next[1] - 1)
              /\ call.cur >= 1

\* Both sides of the clamp: next_round = 1 somewhere, next_round > 2
\* elsewhere.
C6_Witness ==
    /\ Called
    /\ prev # NoCall
    /\ call.next[1] = 1 /\ call.cur = 1
    /\ prev.out >= 2

\* C7: for a fixed beacon and two instants t1 <= t2,
\* round_at(t1) <= round_at(t2).
C7_Monotonic ==
    (Called /\ prev # NoCall)
    => /\ (prev.t <= call.t => prev.out <= call.out)
       /\ (call.t <= prev.t => call.out <= prev.out)

C7_Witness ==
    /\ Called
    /\ prev # NoCall
    /\ prev.t < call.t
    /\ prev.out < call.out
    /\ call.kind = "round_after"

\* C13: round_after(info, 0) is current_round(now, period, genesis) for
\* the instant `now` of the call, and that is next_round(now) - 1 whenever
\* next_round(now) > 1.
C13_ZeroDurationIsCurrentRound ==
    (Called /\ call.kind = "round_after" /\ call.d = 0)
    => LET now_unix == as_secs(duration_since_epoch(call.now))
           period   == from_secs(call.info.period)
           genesis  == call.info.genesis
           n        == next_round(now_unix, period, genesis)[1]
       IN  /\ call.out = current_round(now_unix, period, genesis)
           /\ n > 1 => call.out = n - 1

\* A zero duration asked for past the first period: the round returned is
\* the one before next_round's.
C13_Witness ==
    /\ Called
    /\ call.kind = "round_after"
    /\ call.d = 0
    /\ call.next[1] > 1
    /\ call.out = call.next[1] - 1

\* C19 (as claimed): for a fixed beacon, two instants for which next_round
\* returns the same round are given the same emission time.
C19_EmissionTimeByRound ==
    (Called /\ prev # NoCall /\ prev.next[1] = call.next[1])
    => prev.next[2] = call.next[2]

(***************************************************************************)
(* Claims about the two sessions, checked under Spec.                      *)
(***************************************************************************)
\* C1: when the peer-targeted session loads the key slot as a time-delayed
\* session last wrote it, the 32-byte key it passes to the prover is the
\* key that session generated and wrote.
C1_KeyContinuity ==
    (ec.prove_calls > 0 /\ ec.origin.by = "zkpoex")
    => /\ ec.stdin.key = ec.origin.key
       /\ Len(ec.stdin.key) = KeyLen

C1_Witness ==
    /\ ec.prove_calls > 0
    /\ ec.origin.by = "zkpoex"
    /\ ec.stdin.key \in Keys
    /\ zk.pc = "done"

\* A fixture field that holds the bytes of a secret key as they are.
IsPlaintextKey(field) == field.kind = "bytes" /\ field.val \in Keys

\* C8 (as claimed): no fixture file written by either session contains the
\* plaintext bytes of the secret key.
C8_NoPlaintextKeyInFixture ==
    \A f \in FixtureFiles :
        fs[f].kind = "json"
        => \A name \in DOMAIN fs[f].val : ~IsPlaintextKey(fs[f].val[name])

\* C9: when the key slot is empty as the peer-targeted session reads it,
\* the session fails with key-not-found: it has no key, never calls the
\* prover and writes no file.
C9_EmptySlotKeyNotFound ==
    ec.read = NoFile
    => /\ ec.pc = "panicked"
       /\ ec.outcome = "KeyNotFound"
       /\ ec.key = NoKey
       /\ ec.prove_calls = 0
       /\ ec.wrote = {}

C9_Witness ==
    /\ ec.read = NoFile
    /\ ec.outcome = "KeyNotFound"
    /\ fs[DataDir] = Dir

\* C10: when the key slot holds a value that is not exactly 32 bytes long,
\* the peer-targeted session fails with key-length-mismatch: the value is
\* neither cut nor padded, the prover is not called and no file is written.
C10_WrongLengthMismatch ==
    (ec.read.kind = "bytes" /\ Len(ec.read.val) # KeyLen)
    => /\ ec.pc = "panicked"
       /\ ec.outcome = "KeyLengthMismatch"
       /\ ec.key = NoKey
       /\ ec.prove_calls = 0
       /\ ec.wrote = {}

\* A longer value is refused.
C10_Witness ==
    /\ ec.read.kind = "bytes"
    /\ Len(ec.read.val) > KeyLen
    /\ ec.outcome = "KeyLengthMismatch"

\* C11: in either script, once the public values the prover returned have
\* failed to decode, the run has panicked with the decode error, holds no
\* decoded fields, and has neither written nor tried to write its fixture.
\* (A time-delayed run reaches the decoding only after line 133 has
\* written the key slot.)
C11_DecodeFailureAborts ==
    /\ zk.public_values = Malformed
       => /\ zk.decoded = Unset
          /\ zk.pc \in {"mkdir", "write_key", "decode", "panicked"}
          /\ (zk.pc = "panicked" /\ KeySlot \in zk.wrote)
             => zk.outcome = "PublicValueDecodeError"
          /\ ZkFixture \notin zk.wrote \cup zk.failed
    /\ ec.public_values = Malformed
       => /\ ec.decoded = Unset
          /\ ec.pc \in {"decode", "panicked"}
          /\ ec.pc = "panicked" => ec.outcome = "PublicValueDecodeError"
          /\ ec.wrote = {}

\* Both scripts have met public values that do not decode.
C11_Witness ==
    /\ zk.public_values = Malformed
    /\ zk.outcome = "PublicValueDecodeError"
    /\ ec.public_values = Malformed
    /\ ec.outcome = "PublicValueDecodeError"


\* C12: in either script the prover is called at most once, and a run that
\* ended on the prover's failure made exactly one call and has neither
\* written nor tried to write any file.
C12_ProvingFailureFatal ==
    /\ zk.prove_calls <= 1
    /\ ec.prove_calls <= 1
    /\ zk.outcome = "ProvingFailed"
       => /\ zk.pc = "panicked"
          /\ zk.prove_calls = 1
          /\ zk.wrote = {}
          /\ zk.failed = {}
    /\ ec.outcome = "ProvingFailed"
       => /\ ec.pc = "panicked"
          /\ ec.prove_calls = 1
          /\ ec.wrote = {}

\* The prover has failed both scripts; the key slot still holds the key
\* it held before either was launched.
C12_Witness ==
    /\ zk.outcome = "ProvingFailed"
    /\ ec.outcome = "ProvingFailed"
    /\ fs[KeySlot] = Bytes(StaleKey)


\* C14 (as claimed): the time-delayed script writes no file before it has
\* decoded the prover's public values.
C14_NoWriteBeforeDecode ==
    zk.wrote # {} => zk.decoded # Unset

\* C16 (as claimed): a time-delayed run on which any I/O call has failed
\* ends with the persistence error and never reports success.
C16_IoFailureFatal ==
    (Stopped(zk) /\ zk.failed # {})
    => /\ zk.pc = "panicked"
       /\ zk.outcome = "PersistenceError"

\* C17 (as claimed): whenever no time-delayed run is in progress and the
\* key slot holds a key, that key is the key the time-lock blob binds and
\* the key the time-delayed fixture records, for each of the two that
\* exists.
C17_ArtifactsConsistent ==
    (/\ Stopped(zk)
     /\ fs[KeySlot].kind = "bytes"
     /\ Len(fs[KeySlot].val) = KeyLen)
    => /\ fs[TlockBlob].kind = "tlock"
          => fs[KeySlot] = Bytes(fs[TlockBlob].binds)
       /\ fs[ZkFixture].kind = "json"
          => fs[KeySlot] = fs[ZkFixture].val.key


\* C15: no step of the peer-targeted script changes the key slot, either
\* ciphertext blob, the proof file, the working-state directory or the
\* time-delayed fixture; the only file it ever writes is its own fixture.
C15_EcdhIsBorrower ==
    [][ec' # ec
       => /\ \A p \in Paths \ {EcFixture} : fs'[p] = fs[p]
          /\ slot_origin' = slot_origin
          /\ ec'.wrote \subseteq {EcFixture}]_vars

\* The peer-targeted script has completed on the key a time-delayed run
\* wrote, and the slot still holds that key.
C15_Witness ==
    /\ ec.pc = "done"
    /\ ec.wrote = {EcFixture}
    /\ ec.origin.by = "zkpoex"
    /\ fs[KeySlot] = Bytes(ec.key)
    /\ fs[TlockBlob].kind = "tlock"

\* C18: when a time-delayed run has completed, the key the time-lock
\* ciphertext binds, the key given to the prover, the key in the key slot
\* and the key in the fixture are one value, and so are the round given to
\* the binder, the round given to the prover and the round in the fixture.
C18_OneKeyOneRound ==
    zk.pc = "done"
    => LET fixture == fs[ZkFixture].val IN
       /\ zk.tlock_cipher.binds = zk.stdin.key
       /\ fs[TlockBlob] = zk.tlock_cipher
       /\ fixture.tlock_cipher = zk.tlock_cipher
       /\ fs[KeySlot] = Bytes(zk.stdin.key)
       /\ fixture.key = Bytes(zk.stdin.key)
       /\ zk.tlock_cipher.round = zk.stdin.round
       /\ fixture.round = Num(zk.stdin.round)

\* A second run has completed, over the files of the first, for the
\* latest round of the model.
C18_Witness ==
    /\ zk.pc = "done"
    /\ zk.runs = 2
    /\ zk.stdin.round = MaxRound
    /\ fs[KeySlot] = Bytes(zk.key)
    /\ fs[ZkFixture].val.round = Num(MaxRound)

=============================================================================
